---- MODULE Spec2Model ----
(***************************************************************************)
(* Model of app.py: the natural-language-to-SQL pipeline of the CSV Data   *)
(* Query Chatbot.                                                          *)
(*                                                                         *)
(* Two specifications share the module:                                    *)
(*   Spec      one Streamlit session: every step is one run of main()      *)
(*             (lines 83-180) on the widget values of that run;            *)
(*   SpecExec  execute_sql_query (lines 63-81) as a function of what       *)
(*             pd.read_sql_query does (rows, or an exception message).     *)
(*                                                                         *)
(* Text is modelled as a sequence of tokens.  A token is an atomic piece   *)
(* of text; the tokens are chosen so that no concatenation of two of them  *)
(* creates a phrase that is not already a token, hence Python's substring  *)
(* test `p in s` for a phrase p is token membership, str.split(':') cuts   *)
(* at the ":" tokens, str.strip() drops leading and trailing whitespace    *)
(* tokens, and str.lower() maps every token to its lower-case token.       *)
(***************************************************************************)
EXTENDS Integers, Sequences, FiniteSets, TLC

VARIABLES
    history,          \* st.session_state["history"]
    current_query,    \* st.session_state["current_query"]
    openai_api_key,   \* sidebar text input, value of the latest run
    uploaded_file,    \* sidebar file uploader, value of the latest run
    user_query,       \* text area, value of the latest run
    submit,           \* st.button("Submit Query") of the latest run
    out,              \* what the latest run of main() did, in order
    lastSub,          \* the latest submission: its request text and how it ended
    completion,       \* what openai.ChatCompletion.create did in the latest run
    outcome,          \* what pd.read_sql_query did in the latest run
    ret               \* what execute_sql_query returned in the latest run

vars == <<history, current_query, openai_api_key, uploaded_file, user_query,
          submit, out, lastSub, completion, outcome, ret>>

sessionVars == <<history, current_query, openai_api_key, uploaded_file,
                 user_query, submit, out, lastSub, completion>>

-----------------------------------------------------------------------------
(* Bounds *)

\* longest exception message, in tokens, that SpecExec enumerates
MaxLen == 4

\* most entries the session accumulates before submissions stop
MaxHist == 2

-----------------------------------------------------------------------------
(* Text *)

\* Python values that may be None are tagged records; text is a token sequence
None    == [kind |-> "None"]
Str(s)  == [kind |-> "str", text |-> s]

\* the tokens of the exception messages
Tokens == {"no such table", "No Such Table", "syntax error", "SYNTAX ERROR",
           ":", " ", "orders"}

\* str.lower() on one token
LowerTok(t) ==
    CASE t = "No Such Table" -> "no such table"
      [] t = "SYNTAX ERROR"  -> "syntax error"
      [] t = "TABLE"         -> "table"
      [] t = "Show"          -> "show"
      [] OTHER               -> t

\* str.lower()
lower(s) == [i \in DOMAIN s |-> LowerTok(s[i])]

\* Python's `p in s` for a phrase p
In(p, s) == \E i \in DOMAIN s : s[i] = p

\* str.split(':')[-1]: the text after the last ':' (all of it if there is none)
split_last(s) ==
    LET colons == {i \in DOMAIN s : s[i] = ":"}
    IN  IF colons = {} THEN s
        ELSE LET k == CHOOSE i \in colons : \A j \in colons : j <= i
             IN  SubSeq(s, k + 1, Len(s))

\* str.strip()
strip(s) ==
    LET solid == {i \in DOMAIN s : s[i] # " "}
    IN  IF solid = {} THEN <<>>
        ELSE LET a == CHOOSE i \in solid : \A j \in solid : i <= j
                 b == CHOOSE i \in solid : \A j \in solid : j <= i
             IN  SubSeq(s, a, b)

RECURSIVE SeqsUpTo(_, _)
SeqsUpTo(S, n) ==
    IF n = 0 THEN {<<>>}
    ELSE LET shorter == SeqsUpTo(S, n - 1)
         IN  shorter \cup {Append(s, t) : s \in {x \in shorter : Len(x) = n - 1}, t \in S}

\* str(e) of the exceptions SpecExec enumerates
Messages == SeqsUpTo(Tokens, MaxLen)

-----------------------------------------------------------------------------
(* execute_sql_query *)

NoTableText == <<"The query could not find the specified table.">>
SyntaxText  == <<"The query has a syntax error.">>
GenericText == <<"An error occurred while executing the query.">>

\* pd.read_sql_query either returns a DataFrame (n rows) or raises, str(e) = m
DataFrame(n) == [kind |-> "DataFrame", rows |-> n]
Raise(m)     == [kind |-> "raise", msg |-> m]
NoCall       == [kind |-> "nocall"]
Pending      == <<NoCall, NoCall>>

\* lines 73-79 with the final else dropped: the stripped tail is returned as is
simplify_keep_tail(msg) ==
    LET error_message == strip(split_last(msg))
    IN  IF In("no such table", lower(error_message)) THEN NoTableText
        ELSE IF In("syntax error", lower(error_message)) THEN SyntaxText
        ELSE error_message

\* lines 73-79: the except branch's "Simplify the error message"
simplify(msg) ==
    LET error_message == strip(split_last(msg))
    IN  IF In("no such table", lower(error_message)) THEN NoTableText
        ELSE IF In("syntax error", lower(error_message)) THEN SyntaxText
        ELSE GenericText

\* lines 63-81: (result_df, None) on success, (None, error_message) on any Exception
execute_sql_query(o) ==
    IF o.kind = "DataFrame" THEN <<o, None>>
    ELSE <<None, Str(simplify(o.msg))>>

-----------------------------------------------------------------------------
(* The widgets and the collaborators of one run of main() *)

\* st.sidebar.text_input: empty until the user types a key
ApiKeys == {"", "sk-key"}

\* st.sidebar.file_uploader: None, a CSV of eight columns, a CSV of another width
NoFile  == "None"
OkFile  == "eight_columns.csv"
BadFile == "three_columns.csv"

\* st.text_area: the request texts the user types
Requests == {<<>>, <<"count", " ", "rows">>, <<"Show", " ", "TABLE">>}

\* response.choices[0].message["content"]: what the completion service answers
Contents == {<<"SELECT * FROM data">>, <<" ", "SELECT * FROM orders", " ">>}

\* str(e) of the exceptions the session's database raises
SessionMessages == {<<"no such table", ":", " ", "orders">>,
                    <<"No Such Table">>,
                    <<"orders", ":", " ", "syntax error">>}

\* pd.read_sql_query on the engine of lines 110-112, which holds the table "data" only
read_sql_query(sql_query) ==
    IF sql_query = <<"SELECT * FROM data">>
    THEN {DataFrame(0), DataFrame(2)}
    ELSE {Raise(m) : m \in SessionMessages}

\* line 40: .strip() of the completion's content
generate_sql_query(content) == strip(content)

\* the events a run leaves in out
CallGenerate  == "generate_sql_query"
CallExecute   == "execute_sql_query"
HistoryAppend == "history.append"
WarnNewQuery  == "st.warning: Please enter a new query to proceed."
WarnApiKey    == "st.warning: Please enter your OpenAI API key to proceed."
Raised        == "raise"

\* lastSub before any submission; len0 is Len(history) before the submission
NoSub == [q |-> <<>>, end |-> "none", len0 |-> 0]

-----------------------------------------------------------------------------
(* Formatting and the history entry, lines 153-176 *)

NoResultsText == <<"The query executed successfully but returned no results.">>

\* DataFrame.to_html(index=False) and DataFrame.to_string(index=False)
to_html(result)   == <<"<table>", ToString(result.rows), "</table>">>
to_string(result) == <<ToString(result.rows)>>

\* lines 153-168 with the error stored without the "Error: " of line 167
format_result_bare_error(request, result, error) ==
    IF result # None
    THEN IF result.rows = 0
         THEN <<NoResultsText, <<>>>>
         ELSE IF In("table", lower(request))
              THEN <<<<>>, to_html(result)>>
              ELSE <<to_string(result), <<>>>>
    ELSE <<error.text, <<>>>>

\* lines 153-168 with line 160 testing user_query instead of user_query.lower()
format_result_case_sensitive(request, result, error) ==
    IF result # None
    THEN IF result.rows = 0
         THEN <<NoResultsText, <<>>>>
         ELSE IF In("table", request)
              THEN <<<<>>, to_html(result)>>
              ELSE <<to_string(result), <<>>>>
    ELSE <<<<"Error: ">> \o error.text, <<>>>>

\* lines 153-168: (response_text, table_html)
format_result(request, result, error) ==
    IF result # None
    THEN IF result.rows = 0
         THEN <<NoResultsText, <<>>>>
         ELSE IF In("table", lower(request))
              THEN <<<<>>, to_html(result)>>
              ELSE <<to_string(result), <<>>>>
    ELSE <<<<"Error: ">> \o error.text, <<>>>>

\* lines 171-176: the dictionary appended to history
Entry(request, sql_query, formatted) ==
    [query |-> request, sql_query |-> sql_query,
     response |-> formatted[1], table |-> formatted[2]]

-----------------------------------------------------------------------------
(* One run of main(), lines 83-180, by the path it takes *)

Init ==
    /\ history = <<>>                 \* lines 85-86
    /\ current_query = <<>>           \* lines 87-88
    /\ openai_api_key = ""
    /\ uploaded_file = NoFile
    /\ user_query = <<>>
    /\ submit = FALSE
    /\ out = <<>>
    /\ lastSub = NoSub
    /\ completion = NoCall
    /\ outcome = NoCall
    /\ ret = Pending

\* a run that calls neither collaborator
Quiet == completion' = NoCall /\ outcome' = NoCall /\ ret' = Pending

\* line 99 false: nothing below it runs, no widget of the chat is rendered
RunWithoutFile(key) ==
    /\ openai_api_key' = key
    /\ uploaded_file' = NoFile
    /\ user_query' = <<>>
    /\ submit' = FALSE
    /\ out' = <<>>
    /\ Quiet
    /\ UNCHANGED <<history, current_query, lastSub>>

\* line 103: assigning eight names to a frame of another width raises
RunBadFile(key) ==
    /\ openai_api_key' = key
    /\ uploaded_file' = BadFile
    /\ user_query' = <<>>
    /\ submit' = FALSE
    /\ out' = <<Raised>>
    /\ Quiet
    /\ UNCHANGED <<history, current_query, lastSub>>

\* the run goes on past line 137 and submits the request with no key
RunWithoutKey_submits(request) ==
    /\ openai_api_key' = ""
    /\ uploaded_file' = OkFile
    /\ user_query' = request
    /\ submit' = TRUE
    /\ current_query' = request
    /\ out' = <<CallGenerate, Raised>>
    /\ completion' = Raise(<<"No API key provided">>)
    /\ outcome' = NoCall
    /\ ret' = Pending
    /\ lastSub' = [q |-> request, end |-> "generation_failed", len0 |-> Len(history)]
    /\ UNCHANGED history

\* lines 137, 179-180: no key, the warning, the button is not rendered
RunWithoutKey(request) ==
    /\ openai_api_key' = ""
    /\ uploaded_file' = OkFile
    /\ user_query' = request
    /\ submit' = FALSE
    /\ out' = <<WarnApiKey>>
    /\ Quiet
    /\ UNCHANGED <<history, current_query, lastSub>>

\* lines 137-141: key and file present, the button was not pressed
RunWithoutSubmit(key, request) ==
    /\ key # ""
    /\ openai_api_key' = key
    /\ uploaded_file' = OkFile
    /\ user_query' = request
    /\ submit' = FALSE
    /\ out' = <<>>
    /\ Quiet
    /\ UNCHANGED <<history, current_query, lastSub>>

\* lines 143, 177-178 with the pipeline run again on the repeated request
SubmitDuplicate_reruns(key, request) ==
    /\ key # ""
    /\ current_query = request
    /\ openai_api_key' = key
    /\ uploaded_file' = OkFile
    /\ user_query' = request
    /\ submit' = TRUE
    /\ out' = <<CallGenerate, Raised>>
    /\ completion' = Raise(<<"unreachable">>)
    /\ outcome' = NoCall
    /\ ret' = Pending
    /\ lastSub' = [q |-> request, end |-> "generation_failed", len0 |-> Len(history)]
    /\ UNCHANGED <<history, current_query>>

\* lines 143, 177-178: the request equals current_query, the warning
SubmitDuplicate(key, request) ==
    /\ key # ""
    /\ current_query = request
    /\ openai_api_key' = key
    /\ uploaded_file' = OkFile
    /\ user_query' = request
    /\ submit' = TRUE
    /\ out' = <<WarnNewQuery>>
    /\ Quiet
    /\ lastSub' = [q |-> request, end |-> "duplicate", len0 |-> Len(history)]
    /\ UNCHANGED <<history, current_query>>

\* lines 143-147 with the completion call wrapped in try/except giving empty SQL
SubmitGenerationFails_swallowed(key, request) ==
    /\ key # ""
    /\ current_query # request
    /\ Len(history) < MaxHist
    /\ openai_api_key' = key
    /\ uploaded_file' = OkFile
    /\ user_query' = request
    /\ submit' = TRUE
    /\ current_query' = request
    /\ completion' = Raise(<<"unreachable">>)
    /\ outcome' = Raise(<<"syntax error">>)
    /\ ret' = execute_sql_query(outcome')
    /\ history' = Append(history,
                         Entry(request, <<>>, format_result(request, ret'[1], ret'[2])))
    /\ out' = <<CallGenerate, CallExecute, HistoryAppend>>
    /\ lastSub' = [q |-> request, end |-> "executed", len0 |-> Len(history)]

\* lines 143-147 with line 144 moved after the pipeline
SubmitGenerationFails_unrecorded(key, request) ==
    /\ key # ""
    /\ current_query # request
    /\ openai_api_key' = key
    /\ uploaded_file' = OkFile
    /\ user_query' = request
    /\ submit' = TRUE
    /\ completion' = Raise(<<"unreachable">>)
    /\ outcome' = NoCall
    /\ ret' = Pending
    /\ out' = <<CallGenerate, Raised>>
    /\ lastSub' = [q |-> request, end |-> "generation_failed", len0 |-> Len(history)]
    /\ UNCHANGED <<history, current_query>>

\* lines 143-147: a new request, line 144 records it, the call of line 31 raises
\* and nothing catches it
SubmitGenerationFails(key, request) ==
    /\ key # ""
    /\ current_query # request
    /\ openai_api_key' = key
    /\ uploaded_file' = OkFile
    /\ user_query' = request
    /\ submit' = TRUE
    /\ current_query' = request
    /\ completion' = Raise(<<"unreachable">>)
    /\ outcome' = NoCall
    /\ ret' = Pending
    /\ out' = <<CallGenerate, Raised>>
    /\ lastSub' = [q |-> request, end |-> "generation_failed", len0 |-> Len(history)]
    /\ UNCHANGED history

\* lines 143-176 with history cleared for the new query
SubmitExecutes_clears(key, request, content, o) ==
    /\ key # ""
    /\ current_query # request
    /\ Len(history) < MaxHist
    /\ o \in read_sql_query(generate_sql_query(content))
    /\ openai_api_key' = key
    /\ uploaded_file' = OkFile
    /\ user_query' = request
    /\ submit' = TRUE
    /\ current_query' = request
    /\ completion' = Str(content)
    /\ outcome' = o
    /\ ret' = execute_sql_query(o)
    /\ history' = <<Entry(request, generate_sql_query(content),
                          format_result(request, ret'[1], ret'[2]))>>
    /\ out' = <<CallGenerate, CallExecute, HistoryAppend>>
    /\ lastSub' = [q |-> request, end |-> "executed", len0 |-> Len(history)]

\* lines 143-176: a new request runs the pipeline and its entry is appended
SubmitExecutes(key, request, content, o) ==
    /\ key # ""
    /\ current_query # request
    /\ Len(history) < MaxHist
    /\ o \in read_sql_query(generate_sql_query(content))
    /\ openai_api_key' = key
    /\ uploaded_file' = OkFile
    /\ user_query' = request
    /\ submit' = TRUE
    /\ current_query' = request
    /\ completion' = Str(content)
    /\ outcome' = o
    /\ ret' = execute_sql_query(o)
    /\ history' = Append(history,
                         Entry(request, generate_sql_query(content),
                               format_result(request, ret'[1], ret'[2])))
    /\ out' = <<CallGenerate, CallExecute, HistoryAppend>>
    /\ lastSub' = [q |-> request, end |-> "executed", len0 |-> Len(history)]

\* what the database may do in a session
SessionOutcomes ==
    {DataFrame(0), DataFrame(2)} \cup {Raise(m) : m \in SessionMessages}

Next ==
    \/ \E key \in ApiKeys : RunWithoutFile(key)
    \/ \E key \in ApiKeys : RunBadFile(key)
    \/ \E request \in Requests : RunWithoutKey(request)
    \/ \E key \in ApiKeys, request \in Requests : RunWithoutSubmit(key, request)
    \/ \E key \in ApiKeys, request \in Requests : SubmitDuplicate(key, request)
    \/ \E key \in ApiKeys, request \in Requests : SubmitGenerationFails(key, request)
    \/ \E key \in ApiKeys, request \in Requests, content \in Contents,
          o \in SessionOutcomes : SubmitExecutes(key, request, content, o)

Spec == Init /\ [][Next]_vars

-----------------------------------------------------------------------------
(* execute_sql_query alone, over every outcome of pd.read_sql_query *)

\* the row counts SpecExec enumerates
RowCounts == {0, 1, 2}

InitExec ==
    /\ history = <<>>
    /\ current_query = <<>>
    /\ openai_api_key = ""
    /\ uploaded_file = NoFile
    /\ user_query = <<>>
    /\ submit = FALSE
    /\ out = <<>>
    /\ lastSub = NoSub
    /\ completion = NoCall
    /\ outcome \in {DataFrame(n) : n \in RowCounts} \cup {Raise(m) : m \in Messages}
    /\ ret = Pending

\* lines 69-70: the query ran
ExecuteReturns ==
    /\ ret = Pending
    /\ outcome.kind = "DataFrame"
    /\ ret' = execute_sql_query(outcome)
    /\ UNCHANGED <<sessionVars, outcome>>

\* lines 71-81: the query raised
ExecuteCatches ==
    /\ ret = Pending
    /\ outcome.kind = "raise"
    /\ ret' = execute_sql_query(outcome)
    /\ UNCHANGED <<sessionVars, outcome>>

NextExec == ExecuteReturns \/ ExecuteCatches

SpecExec == InitExec /\ [][NextExec]_vars

-----------------------------------------------------------------------------
(* Claims about execute_sql_query, checked under SpecExec *)

ThreeTexts == {NoTableText, SyntaxText, GenericText}

Called == ret # Pending
Caught == Called /\ outcome.kind = "raise"

\* C2: every exception whose message contains "no such table" in any letter
\* case, wherever in the message, makes execute_sql_query return
\* (None, "The query could not find the specified table.")
C2_Claim ==
    (Caught /\ In("no such table", lower(outcome.msg)))
        => ret = <<None, Str(NoTableText)>>

\* C3: a message containing "syntax error" and not "no such table" gives
\* "The query has a syntax error.", a message containing neither gives
\* "An error occurred while executing the query.", and the text returned is
\* always one of the three fixed texts
C3_Claim ==
    Caught =>
        LET m == lower(outcome.msg)
        IN  /\ (In("syntax error", m) /\ ~In("no such table", m))
                   => ret[2] = Str(SyntaxText)
            /\ (~In("syntax error", m) /\ ~In("no such table", m))
                   => ret[2] = Str(GenericText)
            /\ ret[2].kind = "str" /\ ret[2].text \in ThreeTexts

\* C9: execute_sql_query always returns, and returns a pair with exactly one
\* component populated: (rows, None) on success, (None, non-empty message)
\* on any exception
C9_Thm ==
    /\ ~Called => ENABLED NextExec
    /\ Called =>
        /\ (ret[1] = None) # (ret[2] = None)
        /\ outcome.kind = "DataFrame" => ret = <<outcome, None>>
        /\ outcome.kind = "raise" =>
               ret[1] = None /\ ret[2].kind = "str" /\ ret[2].text # <<>>

\* an exception whose message ends in ':' was caught and answered
C9_Witness ==
    /\ Caught
    /\ outcome.msg # <<>> /\ outcome.msg[Len(outcome.msg)] = ":"
    /\ ret = <<None, Str(GenericText)>>

-----------------------------------------------------------------------------
(* Claims about the session, checked under Spec.  In an action formula the  *)
(* primed widget variables are the inputs of the run the step makes.        *)

Last(h) == h[Len(h)]

\* history' is history, or history with one entry added at the end
AppendedOrSame ==
    \/ history' = history
    \/ /\ Len(history') = Len(history) + 1
       /\ SubSeq(history', 1, Len(history)) = history

\* the step is a submission of the request text of the latest submission
Resubmission == submit' /\ lastSub.end # "none" /\ user_query' = lastSub.q

\* C1 as stated: two submissions of one text in succession run the pipeline
\* exactly once, the second gives the warning, history gains exactly one entry
C1_Claim ==
    [][Resubmission =>
          /\ In(WarnNewQuery, out')
          /\ ~In(CallGenerate, out')
          /\ lastSub.end = "executed"
          /\ Len(history') = lastSub.len0 + 1]_vars

\* C1 amended: the second of two submissions of one text in succession gives
\* the warning, calls neither the generator nor the executor and appends
\* nothing; over the two, history gains one entry if the first ran the
\* pipeline to its end and none otherwise
C1_Thm ==
    [][Resubmission =>
          /\ out' = <<WarnNewQuery>>
          /\ completion' = NoCall /\ outcome' = NoCall
          /\ history' = history /\ current_query' = current_query
          /\ Len(history') =
                 lastSub.len0 + (IF lastSub.end = "executed" THEN 1 ELSE 0)]_vars

\* a request was executed and its resubmission was answered with the warning
C1_Witness ==
    /\ submit /\ out = <<WarnNewQuery>>
    /\ lastSub.end = "duplicate"
    /\ history # <<>> /\ Last(history).query = user_query

C5_Claim ==
    [][openai_api_key' = "" =>
          /\ In(WarnApiKey, out')
          /\ completion' = NoCall /\ outcome' = NoCall
          /\ history' = history /\ current_query' = current_query]_vars

\* C5 amended: every run without an API key on a dataset that loaded shows
\* the warning, calls neither collaborator and leaves history and
\* current_query as they were; without a key no run changes them
C5_Thm ==
    [][openai_api_key' = "" =>
          /\ uploaded_file' = OkFile => In(WarnApiKey, out')
          /\ completion' = NoCall /\ outcome' = NoCall
          /\ ~In(CallGenerate, out') /\ ~In(CallExecute, out')
          /\ history' = history /\ current_query' = current_query]_vars

\* the key was withdrawn after a request had been answered
C5_Witness ==
    /\ openai_api_key = "" /\ uploaded_file = OkFile
    /\ out = <<WarnApiKey>>
    /\ history # <<>> /\ user_query # current_query

\* C6: when the completion call raises, the exception leaves the run, the
\* executor is not called and no entry is appended
C6_Thm ==
    [][completion'.kind = "raise" =>
          /\ Last(out') = Raised
          /\ ~In(CallExecute, out') /\ outcome' = NoCall
          /\ ~In(HistoryAppend, out')
          /\ history' = history]_vars

\* a generation failure behind an answered request
C6_Witness ==
    /\ completion.kind = "raise" /\ submit
    /\ Last(out) = Raised
    /\ history # <<>>

\* the entry C7 describes, with the given result text
FailureEntry(text) ==
    [query |-> user_query', sql_query |-> generate_sql_query(completion'.text),
     response |-> text, table |-> <<>>]

\* C7 as stated: a failed execution is caught and appends one entry whose
\* result text is the normalized error message
C7_Claim ==
    [][outcome'.kind = "raise" =>
          /\ Last(out') # Raised
          /\ ret'[2].text \in ThreeTexts
          /\ history' = Append(history, FailureEntry(ret'[2].text))]_vars

\* C7 amended: a failed execution is caught and appends one entry holding the
\* request, the generated SQL, no table, and as result text "Error: "
\* followed by the normalized error message
C7_Thm ==
    [][outcome'.kind = "raise" =>
          /\ Last(out') # Raised
          /\ ret'[2].text \in ThreeTexts
          /\ history' = Append(history,
                               FailureEntry(<<"Error: ">> \o ret'[2].text))]_vars

\* a failed execution was recorded behind an earlier entry
C7_Witness ==
    /\ outcome.kind = "raise" /\ In(HistoryAppend, out)
    /\ Len(history) >= 2
    /\ Last(history).response = <<"Error: ">> \o GenericText

\* the four cases of C8, for the run that appended the last entry
NonEmptyRows == outcome.kind = "DataFrame" /\ outcome.rows > 0
EmptyRows    == outcome.kind = "DataFrame" /\ outcome.rows = 0
Failed       == outcome.kind = "raise"
AsksTable    == In("table", lower(user_query))
C8_Cases     == <<NonEmptyRows /\ AsksTable, NonEmptyRows /\ ~AsksTable,
                  EmptyRows, Failed>>

\* the first three cases of the rendering policy, and that exactly one of the
\* four cases applies
C8_RowCases(e) ==
    /\ C8_Cases[1] => e.table = to_html(outcome) /\ e.table # <<>> /\ e.response = <<>>
    /\ C8_Cases[2] => e.response = to_string(outcome) /\ e.response # <<>> /\ e.table = <<>>
    /\ C8_Cases[3] => e.response = NoResultsText /\ e.table = <<>>
    /\ Cardinality({i \in 1..4 : C8_Cases[i]}) = 1

\* C8 as stated: rows with "table" in the request are stored as a table, rows
\* without as plain text, no rows as the fixed message, an error as its
\* normalized message
C8_Claim ==
    In(HistoryAppend, out) =>
        /\ C8_RowCases(Last(history))
        /\ C8_Cases[4] => Last(history).response = ret[2].text
                          /\ Last(history).table = <<>>

\* C8 amended: as stated, "table" being looked for in the lower-cased request,
\* except that an error is stored as "Error: " followed by its normalized
\* message
C8_Thm ==
    In(HistoryAppend, out) =>
        /\ C8_RowCases(Last(history))
        /\ C8_Cases[4] => Last(history).response = <<"Error: ">> \o ret[2].text
                          /\ ret[2].text \in ThreeTexts
                          /\ Last(history).table = <<>>

\* rows were stored as a table for a request that spells the word in capitals
C8_Witness ==
    /\ In(HistoryAppend, out)
    /\ NonEmptyRows /\ AsksTable /\ ~In("table", user_query)
    /\ Last(history).table # <<>>

\* C10: a submission of a new request q that fails in generation leaves
\* current_query = q and history unchanged; q submitted again next is answered
\* with the duplicate warning and does not reach the generator, which a
\* request reaches only when it differs from the latest submission's
C10_Thm ==
    [][/\ (completion'.kind = "raise" /\ current_query # user_query')
             => current_query' = user_query' /\ history' = history
       /\ (Resubmission /\ lastSub.end = "generation_failed")
             => out' = <<WarnNewQuery>> /\ completion' = NoCall
       /\ (submit' /\ In(CallGenerate, out') /\ lastSub.end # "none")
             => user_query' # lastSub.q]_vars

\* a request whose generation failed was submitted again and refused
C10_Witness ==
    /\ submit /\ out = <<WarnNewQuery>>
    /\ lastSub.end = "duplicate"
    /\ user_query # <<>>
    /\ history = <<>> \/ Last(history).query # user_query

====
